---------------------------- MODULE Spec2Model ----------------------------
(***************************************************************************)
(* IPv4 longest-prefix-match routing tables (cidr-routing-table).          *)
(*                                                                         *)
(* The three backends (HashRoutingTable, ListRoutingTable,                 *)
(* TrieRoutingTable) are driven in lockstep by the same sequence of        *)
(* add_cidr / remove_cidr calls.                                           *)
(*                                                                         *)
(* A u32 is a sequence of 32 bits, most significant bit first (TLC's       *)
(* integers are 32-bit signed and cannot hold u32::MAX).  An Ipv4Addr is   *)
(* the same 32 bits: u32::from(addr) and Ipv4Addr::from(bits) are the      *)
(* big-endian reading of the four octets.                                  *)
(***************************************************************************)
EXTENDS Integers, Sequences, FiniteSets, TLC

\* ------------------------------------------------------------------ bounds
\* Number of add_cidr / remove_cidr calls in one run.
MaxOps == 3

\* ------------------------------------------------------- program constants
MAX_LENGTH == 32
U8_MAX == 255

\* ------------------------------------------------------------------- words
\* `for i in lo..=hi { s = Body(s, i) }`: the loop state after the last
\* iteration, from loop state s.  The range is run in two halves, the state
\* after the first half (mid_s) being computed before the second half starts.
RECURSIVE ForRange(_, _, _, _)
ForRange(Body(_, _), s, lo, hi) ==
    IF lo > hi
    THEN s
    ELSE IF lo = hi
         THEN Body(s, lo)
         ELSE LET mid == (lo + hi) \div 2
              IN CHOOSE end_s \in { ForRange(Body, mid_s, mid + 1, hi) :
                                      mid_s \in {ForRange(Body, s, lo, mid)} } : TRUE

\* A word of w bits is a tuple; Word makes the tuple of a function on 1..w.
Word(f, w) == SubSeq(f, 1, w)

ZEROS == Word([i \in 1..64 |-> 0], 64)
ONES == Word([i \in 1..64 |-> 1], 64)

\* The w-bit word (w <= 64) with every bit equal to b.
Fill(w, b) == SubSeq(IF b = 0 THEN ZEROS ELSE ONES, 1, w)

\* x >> n and x << n on a word of any width (n smaller than the width):
\* the bits shifted out are dropped, zeros are shifted in.
Shr(x, n) == Fill(n, 0) \o SubSeq(x, 1, Len(x) - n)
Shl(x, n) == SubSeq(x, n + 1, Len(x)) \o Fill(n, 0)

BitAnd(x, y) == Word([i \in 1..Len(x) |-> x[i] * y[i]], Len(x))
BitOr(x, y) == Word([i \in 1..Len(x) |-> x[i] + y[i] - x[i] * y[i]], Len(x))
BitXor(x, y) == Word([i \in 1..Len(x) |-> (x[i] + y[i]) % 2], Len(x))
BitNot(x) == Word([i \in 1..Len(x) |-> 1 - x[i]], Len(x))

\* x - 1 on a word (wrapping at zero): the lowest set bit is cleared and
\* every bit below it is set.
Dec(x) ==
    IF \A i \in 1..Len(x) : x[i] = 0
    THEN Fill(Len(x), 1)
    ELSE LET low == CHOOSE i \in 1..Len(x) :
                        x[i] = 1 /\ \A j \in (i + 1)..Len(x) : x[j] = 0
         IN Word([i \in 1..Len(x) |->
                    IF i < low THEN x[i] ELSE IF i = low THEN 0 ELSE 1], Len(x))

\* Unsigned comparison x <= y of two words of the same width.
Leq(x, y) ==
    \/ x = y
    \/ \E i \in 1..Len(x) : x[i] < y[i] /\ \A j \in 1..(i - 1) : x[j] = y[j]

\* The 8 bits of an octet n in 0..255, most significant first.
Octet(n) == Word([i \in 1..8 |-> (n \div (2 ^ (8 - i))) % 2], 8)

\* Ipv4Addr::new(a, b, c, d)
Ipv4Addr_new(a, b, c, d) == Octet(a) \o Octet(b) \o Octet(c) \o Octet(d)

U32_MAX == Fill(32, 1)
U32_ZERO == Fill(32, 0)
U32_ONE == Word([i \in 1..32 |-> IF i = 32 THEN 1 ELSE 0], 32)

\* `x as u32` of a u64: the low 32 bits.
AsU32(x) == Word([i \in 1..32 |-> x[i + 32]], 32)
\* `x as u64` of a u32: zero extension.
AsU64(x) == Fill(32, 0) \o x

\* ------------------------------------------------------------ Result/Option
Ok(v) == [ok |-> TRUE, val |-> v]
Err(e) == [ok |-> FALSE, err |-> e]
None == [tag |-> "None"]
Some(v) == [tag |-> "Some", val |-> v]
\* The outcome of a call that panicked (a failed unwrap / expect).
Panic == [tag |-> "Panic"]
\* An Err that wraps the error of the standard library's parser.
ErrWith(e, inner) == [ok |-> FALSE, err |-> e, inner |-> inner]
\* The outcome of a shift by at least the width of its operand: a panic
\* ("attempt to shift with overflow") when the build checks overflow, a shift
\* by the amount modulo the width when it does not.
Overflow == [ok |-> FALSE, err |-> "overflow"]
ShiftOverflows(x, n) == n >= Len(x)

\* ------------------------------------------------------------------- utils
\* The shifts are on a u64, by right_len.
get_cidr_mask(len) ==
    IF len > MAX_LENGTH
    THEN Err("NetworkLengthError")
    ELSE LET right_len == MAX_LENGTH - len
             all_bits == AsU64(U32_MAX)
         IN IF ShiftOverflows(all_bits, right_len)
            THEN Overflow
            ELSE Ok(AsU32(Shl(Shr(all_bits, right_len), right_len)))

\* Variant: the case right_len == MAX_LENGTH is not set apart.
cut_addr_NoZeroCase(addr, len) ==
    IF len > MAX_LENGTH
    THEN Err("NetworkLengthError")
    ELSE LET right_len == MAX_LENGTH - len
             bits == addr
         IN IF ShiftOverflows(bits, right_len)
            THEN Overflow
            ELSE Ok(Shl(Shr(bits, right_len), right_len))

\* The shifts are on a u32, by right_len.
cut_addr(addr, len) ==
    IF len > MAX_LENGTH
    THEN Err("NetworkLengthError")
    ELSE LET right_len == MAX_LENGTH - len
             bits == addr
         IN IF right_len = MAX_LENGTH
            THEN Ok(U32_ZERO)
            ELSE IF ShiftOverflows(bits, right_len)
                 THEN Overflow
                 ELSE Ok(Shl(Shr(bits, right_len), right_len))

\* -------------------------------------------------------------------- cidr
\* Variant: the host bits are not looked at.
Ipv4Cidr_new_NoHostCheck(addr, len) ==
    LET m == get_cidr_mask(len) IN
    IF ~m.ok
    THEN Err(m.err)
    ELSE Ok([addr |-> addr, len |-> len])

Ipv4Cidr_new(addr, len) ==
    LET m == get_cidr_mask(len) IN
    IF ~m.ok
    THEN Err(m.err)
    ELSE IF BitAnd(addr, m.val) # addr
         THEN Err("NetworkLengthError")
         ELSE Ok([addr |-> addr, len |-> len])

Ipv4Cidr_new_host(addr) == [addr |-> addr, len |-> MAX_LENGTH]

\* Ipv4Cidr::from_bits(bits, len): the CIDR of the address with these bits
\* and this length, validated as by Ipv4Cidr::new.
Ipv4Cidr_from_bits(bits, len) == Ipv4Cidr_new(bits, len)

prefix_len(cidr) == cidr.len

Ipv4Cidr_min(cidr) == cidr.addr

\* Variant: the mask is not reversed.
Ipv4Cidr_max_Mask(cidr) ==
    LET bits == cidr.addr
        m == get_cidr_mask(cidr.len)
    IN IF ~m.ok
       THEN Panic
       ELSE BitOr(bits, m.val)

\* A failed get_cidr_mask makes max panic.
Ipv4Cidr_max(cidr) ==
    LET bits == cidr.addr
        m == get_cidr_mask(cidr.len)
    IN IF ~m.ok
       THEN Panic
       ELSE LET reversed_mask == BitXor(U32_MAX, m.val)
            IN BitOr(bits, reversed_mask)

\* Variant: the upper bound is excluded.
Ipv4Cidr_contains_Strict(cidr, addr) ==
    LET lower == Ipv4Cidr_min(cidr)
        upper == Ipv4Cidr_max(cidr)
    IN Leq(lower, addr) /\ Leq(addr, upper) /\ addr # upper

Ipv4Cidr_contains(cidr, addr) ==
    LET lower == Ipv4Cidr_min(cidr)
        upper == Ipv4Cidr_max(cidr)
    IN Leq(lower, addr) /\ Leq(addr, upper)

\* ----------------------------------------------------------------- parsing
\* A text is the sequence of its characters.
DIGITS == <<"0", "1", "2", "3", "4", "5", "6", "7", "8", "9">>

IsDigit(ch) == \E d \in 1..10 : DIGITS[d] = ch

\* char::to_digit(10) of a digit.
to_digit(ch) == (CHOOSE d \in 1..10 : DIGITS[d] = ch) - 1

\* s.split(sep).collect(): the parts of s between the occurrences of sep.
RECURSIVE split(_, _)
split(s, sep) ==
    IF \A i \in 1..Len(s) : s[i] # sep
    THEN <<s>>
    ELSE LET i == CHOOSE k \in 1..Len(s) :
                      s[k] = sep /\ \A j \in 1..(k - 1) : s[j] # sep
         IN <<SubSeq(s, 1, i - 1)>> \o split(SubSeq(s, i + 1, Len(s)), sep)

\* One digit of the number folded by the parsers: the value so far times
\* ten plus the digit, an error once a character is no digit or the value
\* no longer fits a u8.
ParseDigit(acc, ch) ==
    IF ~acc.ok
    THEN acc
    ELSE IF ~IsDigit(ch)
         THEN Err("InvalidDigit")
         ELSE IF acc.val * 10 + to_digit(ch) > U8_MAX
              THEN Err("PosOverflow")
              ELSE Ok(acc.val * 10 + to_digit(ch))

\* Variant: values up to 999 are let through.
parse_u8_Wide(src) ==
    IF src = << >>
    THEN Err("Empty")
    ELSE IF src \in {<<"+">>, <<"-">>}
         THEN Err("InvalidDigit")
         ELSE LET digits == IF src[1] = "+" THEN Tail(src) ELSE src
              IN IF \E i \in 1..Len(digits) : ~IsDigit(digits[i])
                 THEN Err("InvalidDigit")
                 ELSE IF Len(digits) > 3
                      THEN Err("PosOverflow")
                      ELSE ForRange(LAMBDA acc, i : Ok(acc.val * 10 + to_digit(digits[i])),
                                    Ok(0), 1, Len(digits))

\* str::parse::<u8>: an optional '+', then decimal digits of a value that
\* fits a u8; a '-' is no digit of an unsigned integer.
parse_u8(src) ==
    IF src = << >>
    THEN Err("Empty")
    ELSE IF src \in {<<"+">>, <<"-">>}
         THEN Err("InvalidDigit")
         ELSE LET digits == IF src[1] = "+" THEN Tail(src) ELSE src
              IN ForRange(LAMBDA acc, i : ParseDigit(acc, digits[i]),
                          Ok(0), 1, Len(digits))

\* One octet of a dotted quad: one to three digits, no leading zero before
\* another digit, a value that fits a u8.
read_octet(part) ==
    IF Len(part) = 0 \/ Len(part) > 3
    THEN Err("Ipv4")
    ELSE IF Len(part) > 1 /\ part[1] = "0"
         THEN Err("Ipv4")
         ELSE LET n == ForRange(LAMBDA acc, i : ParseDigit(acc, part[i]),
                                Ok(0), 1, Len(part))
              IN IF n.ok THEN n ELSE Err("Ipv4")

\* Ipv4Addr::from_str: four octets separated by '.', and nothing else.
Ipv4Addr_from_str(s) ==
    LET parts == split(s, ".")
    IN IF Len(parts) # 4
       THEN Err("Ipv4")
       ELSE LET o == [i \in 1..4 |-> read_octet(parts[i])]
            IN IF \E i \in 1..4 : ~o[i].ok
               THEN Err("Ipv4")
               ELSE Ok(Ipv4Addr_new(o[1].val, o[2].val, o[3].val, o[4].val))

\* Variant: the length is parsed before the address.
from_str_LenFirst(s) ==
    LET parts == split(s, "/")
    IN IF Len(parts) # 2
       THEN Err("CidrParseError")
       ELSE LET addr == Ipv4Addr_from_str(parts[1])
                len == parse_u8(parts[2])
            IN IF ~len.ok
               THEN ErrWith("ParseIntError", len.err)
               ELSE IF ~addr.ok
                    THEN ErrWith("AddrParseError", addr.err)
                    ELSE Ipv4Cidr_new(addr.val, len.val)

\* <Ipv4Cidr as FromStr>::from_str
from_str(s) ==
    LET parts == split(s, "/")
    IN IF Len(parts) # 2
       THEN Err("CidrParseError")
       ELSE LET addr == Ipv4Addr_from_str(parts[1])
                len == parse_u8(parts[2])
            IN IF ~addr.ok
               THEN ErrWith("AddrParseError", addr.err)
               ELSE IF ~len.ok
                    THEN ErrWith("ParseIntError", len.err)
                    ELSE Ipv4Cidr_new(addr.val, len.val)

\* ------------------------------------------------------- HashRoutingTable
\* cidrs: Vec<HashSet<u32>>, one bucket per prefix length 0..=32.
Hash_new == [len \in 0..32 |-> {}]

\* Indexing cidrs[i] panics when i is out of bounds.
Hash_add_cidr(cidrs, cidr) ==
    IF prefix_len(cidr) \in DOMAIN cidrs
    THEN [panic |-> FALSE,
          cidrs |-> [cidrs EXCEPT ![prefix_len(cidr)] = @ \cup {Ipv4Cidr_min(cidr)}]]
    ELSE [panic |-> TRUE, cidrs |-> cidrs]

\* Variant: the address is taken out of the bucket of every length.
Hash_remove_cidr_AllLengths(cidrs, cidr) ==
    IF prefix_len(cidr) \in DOMAIN cidrs
    THEN [panic |-> FALSE,
          cidrs |-> [len \in DOMAIN cidrs |-> cidrs[len] \ {Ipv4Cidr_min(cidr)}]]
    ELSE [panic |-> TRUE, cidrs |-> cidrs]

\* Variant: the removal looks in the bucket of the wrong length.
Hash_remove_cidr_WrongBucket(cidrs, cidr) ==
    IF prefix_len(cidr) \in DOMAIN cidrs
    THEN [panic |-> FALSE,
          cidrs |-> [cidrs EXCEPT ![MAX_LENGTH - prefix_len(cidr)] =
                                      @ \ {Ipv4Cidr_min(cidr)}]]
    ELSE [panic |-> TRUE, cidrs |-> cidrs]

Hash_remove_cidr(cidrs, cidr) ==
    IF prefix_len(cidr) \in DOMAIN cidrs
    THEN [panic |-> FALSE,
          cidrs |-> [cidrs EXCEPT ![prefix_len(cidr)] = @ \ {Ipv4Cidr_min(cidr)}]]
    ELSE [panic |-> TRUE, cidrs |-> cidrs]

\* Variant: the mask is shifted before the address is masked.
HashFindBody_ShiftFirst(cidrs, s, len) ==
    IF s.returned
    THEN s
    ELSE LET next_mask == Shl(s.bit_mask, 1)
             masked == BitAnd(s.addr_bits, next_mask)
             cidr == Ipv4Cidr_from_bits(masked, len)
         IN IF masked \in cidrs[len]
            THEN [bit_mask |-> next_mask, addr_bits |-> masked, returned |-> TRUE,
                  ret |-> IF cidr.ok THEN Some(cidr.val) ELSE Panic,
                  overflowed |-> s.overflowed \/ ShiftOverflows(s.bit_mask, 1)]
            ELSE [bit_mask |-> next_mask, addr_bits |-> masked, returned |-> FALSE,
                  ret |-> None,
                  overflowed |-> s.overflowed \/ ShiftOverflows(s.bit_mask, 1)]

\* One iteration of `for len in (0..=32).rev()`; s.ret is the value returned
\* from inside the loop, once there is one; s.overflowed tells whether a
\* shift of the mask overflowed.
HashFindBody(cidrs, s, len) ==
    IF s.returned
    THEN s
    ELSE LET masked == BitAnd(s.addr_bits, s.bit_mask)
             next_mask == Shl(s.bit_mask, 1)
             cidr == Ipv4Cidr_from_bits(masked, len)
         IN IF masked \in cidrs[len]
            THEN [bit_mask |-> next_mask, addr_bits |-> masked, returned |-> TRUE,
                  ret |-> IF cidr.ok THEN Some(cidr.val) ELSE Panic,
                  overflowed |-> s.overflowed \/ ShiftOverflows(s.bit_mask, 1)]
            ELSE [bit_mask |-> next_mask, addr_bits |-> masked, returned |-> FALSE,
                  ret |-> None,
                  overflowed |-> s.overflowed \/ ShiftOverflows(s.bit_mask, 1)]

\* The loop state before the first iteration.
HashFindStart(addr) ==
    [bit_mask |-> U32_MAX, addr_bits |-> addr, returned |-> FALSE, ret |-> None,
     overflowed |-> FALSE]

\* The k-th iteration (k = 0..32) is the one for len = 32 - k.
HashFindLoop(cidrs, addr) ==
    ForRange(LAMBDA s, k : HashFindBody(cidrs, s, 32 - k), HashFindStart(addr), 0, 32)

\* The loop states in turn: before the loop, then after the iteration for
\* len = 32, 31, ..., 0.
HashFindTrace(cidrs, addr) ==
    ForRange(LAMBDA tr, k : Append(tr, HashFindBody(cidrs, tr[Len(tr)], 32 - k)),
             <<HashFindStart(addr)>>, 0, 32)

Hash_find_exact_cidr(cidrs, addr) == HashFindLoop(cidrs, addr).ret

\* self.cidrs.iter().map(|s| s.len()).sum()
Hash_size(cidrs) ==
    ForRange(LAMBDA sum, len : sum + Cardinality(cidrs[len]), 0, 0, 32)

\* ------------------------------------------------------- ListRoutingTable
List_new == << >>

List_add_cidr(cidrs, cidr) == Append(cidrs, cidr)

\* Variant: only the first entry equal to cidr is deleted.
List_remove_cidr_FirstOnly(cidrs, cidr) ==
    IF \E i \in 1..Len(cidrs) : cidrs[i] = cidr
    THEN LET first == CHOOSE i \in 1..Len(cidrs) :
                          cidrs[i] = cidr /\ \A j \in 1..(i - 1) : cidrs[j] # cidr
         IN SubSeq(cidrs, 1, first - 1) \o SubSeq(cidrs, first + 1, Len(cidrs))
    ELSE cidrs

List_remove_cidr(cidrs, cidr) == SelectSeq(cidrs, LAMBDA cur : cur # cidr)

\* Variant: the first covering entry is kept, whatever its prefix length.
ListFindBody_First(addr, acc, cidr) ==
    IF Ipv4Cidr_contains(cidr, addr)
    THEN IF acc = None THEN Some(cidr) ELSE acc
    ELSE acc

\* The closure folded over the list by find_exact_cidr.
ListFindBody(addr, acc, cidr) ==
    IF Ipv4Cidr_contains(cidr, addr)
    THEN IF acc = None
         THEN Some(cidr)
         ELSE IF prefix_len(acc.val) < prefix_len(cidr)
              THEN Some(cidr)
              ELSE acc
    ELSE acc

List_find_exact_cidr(cidrs, addr) ==
    ForRange(LAMBDA acc, i : ListFindBody(addr, acc, cidrs[i]), None, 1, Len(cidrs))

List_size(cidrs) == Len(cidrs)

\* ------------------------------------------------------- TrieRoutingTable
\* The trie is a heap of nodes: nodes[p] is the node at address p, the root
\* is at ROOT and a null child pointer is NULL.  Box::new allocates the next
\* free address.
NULL == 0
ROOT == 1

TrieNode_new(is_leaf) == [children |-> <<NULL, NULL>>, is_leaf |-> is_leaf]

\* children[idx] of the node at p (idx is 0 or 1).
TrieNode_get(nodes, p, idx) == nodes[p].children[idx + 1]

\* get_or_add: the heap after the call and the child returned.
TrieNode_get_or_add(nodes, p, idx) ==
    IF nodes[p].children[idx + 1] = NULL
    THEN LET fresh == Len(nodes) + 1
         IN [nodes |-> Append([nodes EXCEPT ![p].children[idx + 1] = fresh],
                              TrieNode_new(FALSE)),
             node |-> fresh]
    ELSE [nodes |-> nodes, node |-> nodes[p].children[idx + 1]]

mark_leaf(nodes, p) == [nodes EXCEPT ![p].is_leaf = TRUE]

\* Variant: the flag is left as it is.
unmark_leaf_Kept(nodes, p) == nodes

\* Variant: the node's subtrees are dropped with the flag.
unmark_leaf_Detach(nodes, p) ==
    [nodes EXCEPT ![p].is_leaf = FALSE, ![p].children = <<NULL, NULL>>]

unmark_leaf(nodes, p) == [nodes EXCEPT ![p].is_leaf = FALSE]

Trie_new == [nodes |-> <<TrieNode_new(FALSE)>>, size |-> 0]

\* Variant: the bits are taken from the least significant end.
take_bit_LowFirst(bit_addr, r_idx) == Shr(bit_addr, r_idx - 1)[32]

\* (bit_addr >> (MAX_LENGTH - r_idx)) & 1, as the integer 0 or 1: the lowest
\* bit of the shifted word.
take_bit(bit_addr, r_idx) == Shr(bit_addr, MAX_LENGTH - r_idx)[32]

\* One iteration of `for len in 1..=cidr.prefix_len()` of add_cidr.
TrieAddBody(bit_addr, s, len) ==
    LET bit == take_bit(bit_addr, len)
    IN TrieNode_get_or_add(s.nodes, s.node, bit)

\* self.size is a usize.  t.size holds it modulo 2^64 by its representative
\* of smallest absolute value: -1 stands for usize::MAX.
\* Variant: the counter is left alone.
Trie_add_cidr_NoIncrement(t, cidr) ==
    LET bit_addr == Ipv4Cidr_min(cidr)
        w == ForRange(LAMBDA s, len : TrieAddBody(bit_addr, s, len),
                      [nodes |-> t.nodes, node |-> ROOT], 1, prefix_len(cidr))
    IN [panic |-> FALSE,
        nodes |-> mark_leaf(w.nodes, w.node),
        size |-> t.size]

Trie_add_cidr(t, cidr) ==
    LET bit_addr == Ipv4Cidr_min(cidr)
        w == ForRange(LAMBDA s, len : TrieAddBody(bit_addr, s, len),
                      [nodes |-> t.nodes, node |-> ROOT], 1, prefix_len(cidr))
    IN [panic |-> FALSE,
        nodes |-> mark_leaf(w.nodes, w.node),
        size |-> t.size + 1]

\* One iteration of `for len in 1..=cidr.prefix_len()` of remove_cidr; the
\* early return leaves node NULL.
TrieRemoveBody(nodes, bit_addr, node, len) ==
    IF node = NULL
    THEN NULL
    ELSE LET bit == take_bit(bit_addr, len)
         IN TrieNode_get(nodes, node, bit)

\* Variant: the leaf flag is cleared and the counter is left alone.
Trie_remove_cidr_NoDecrement(t, cidr, checks) ==
    LET bit_addr == Ipv4Cidr_min(cidr)
        node == ForRange(LAMBDA n, len : TrieRemoveBody(t.nodes, bit_addr, n, len),
                         ROOT, 1, prefix_len(cidr))
    IN IF node = NULL
       THEN [panic |-> FALSE, nodes |-> t.nodes, size |-> t.size]
       ELSE [panic |-> FALSE, nodes |-> unmark_leaf(t.nodes, node), size |-> t.size]

\* `self.size -= 1` at size 0: a panic when the build checks arithmetic
\* overflow (debug), a wrap to usize::MAX when it does not (release).  The
\* panic precedes unmark_leaf.
Trie_remove_cidr(t, cidr, checks) ==
    LET bit_addr == Ipv4Cidr_min(cidr)
        node == ForRange(LAMBDA n, len : TrieRemoveBody(t.nodes, bit_addr, n, len),
                         ROOT, 1, prefix_len(cidr))
    IN IF node = NULL
       THEN [panic |-> FALSE, nodes |-> t.nodes, size |-> t.size]
       ELSE IF t.size = 0 /\ checks
            THEN [panic |-> TRUE, nodes |-> t.nodes, size |-> t.size]
            ELSE [panic |-> FALSE,
                  nodes |-> unmark_leaf(t.nodes, node),
                  size |-> t.size - 1]

\* Variant: best_len follows every visited node, leaf or not.
TrieFindBody_AnyNode(nodes, bit_addr, s, len) ==
    IF s.node = NULL
    THEN s
    ELSE LET bit == take_bit(bit_addr, len)
             child == TrieNode_get(nodes, s.node, bit)
         IN IF child = NULL
            THEN [node |-> NULL, best_len |-> s.best_len]
            ELSE [node |-> child, best_len |-> len]

\* One iteration of `for len in 1..=MAX_LENGTH` of find_exact_cidr; after
\* the break node stays NULL.
TrieFindBody(nodes, bit_addr, s, len) ==
    IF s.node = NULL
    THEN s
    ELSE LET bit == take_bit(bit_addr, len)
             child == TrieNode_get(nodes, s.node, bit)
         IN IF child = NULL
            THEN [node |-> NULL, best_len |-> s.best_len]
            ELSE [node |-> child,
                  best_len |-> IF nodes[child].is_leaf THEN len ELSE s.best_len]

\* Variant: the root's leaf flag is not looked at.
Trie_find_exact_cidr_NoRoot(t, addr) ==
    LET bit_addr == addr
        best_len == ForRange(LAMBDA s, len : TrieFindBody(t.nodes, bit_addr, s, len),
                             [node |-> ROOT, best_len |-> U8_MAX], 1, MAX_LENGTH).best_len
    IN IF best_len = U8_MAX
       THEN None
       ELSE LET truncated_addr ==
                    BitAnd(bit_addr, BitNot(Dec(Shl(U32_ONE, MAX_LENGTH - best_len))))
                cidr == Ipv4Cidr_new(truncated_addr, best_len)
            IN IF cidr.ok THEN Some(cidr.val) ELSE Panic

\* Variant: the address is not truncated to best_len bits.
Trie_find_exact_cidr_NoTruncate(t, addr) ==
    LET bit_addr == addr
        start == IF t.nodes[ROOT].is_leaf THEN 0 ELSE U8_MAX
        best_len == ForRange(LAMBDA s, len : TrieFindBody(t.nodes, bit_addr, s, len),
                             [node |-> ROOT, best_len |-> start], 1, MAX_LENGTH).best_len
    IN IF best_len = U8_MAX
       THEN None
       ELSE LET cidr == Ipv4Cidr_new(bit_addr, best_len)
            IN IF cidr.ok THEN Some(cidr.val) ELSE Panic

Trie_find_exact_cidr(t, addr) ==
    LET bit_addr == addr
        start == IF t.nodes[ROOT].is_leaf THEN 0 ELSE U8_MAX
        best_len == ForRange(LAMBDA s, len : TrieFindBody(t.nodes, bit_addr, s, len),
                             [node |-> ROOT, best_len |-> start], 1, MAX_LENGTH).best_len
    IN IF best_len = U8_MAX
       THEN None
       ELSE LET truncated_addr ==
                    IF best_len = 0
                    THEN U32_ZERO
                    ELSE BitAnd(bit_addr,
                                BitNot(Dec(Shl(U32_ONE, MAX_LENGTH - best_len))))
                cidr == Ipv4Cidr_new(truncated_addr, best_len)
            IN IF cidr.ok THEN Some(cidr.val) ELSE Panic

Trie_size(t) == t.size

\* ------------------------------------------------------------------ inputs
\* (address, length) pairs offered to Ipv4Cidr::new; the pairs it rejects
\* (192.168.0.0/12, 192.168.0.1/16, 192.168.0.0/33) never become a CIDR.
CidrCandidates ==
    { <<Ipv4Addr_new(0, 0, 0, 0), 0>>,
      <<Ipv4Addr_new(192, 168, 0, 0), 13>>,
      <<Ipv4Addr_new(192, 168, 0, 0), 16>>,
      <<Ipv4Addr_new(192, 168, 0, 0), 12>>,
      <<Ipv4Addr_new(192, 168, 0, 1), 16>>,
      <<Ipv4Addr_new(192, 168, 0, 0), 33>> }

\* The CIDRs the callers hold: the accepted candidates and one host CIDR.
CIDRS ==
    { Ipv4Cidr_new(p[1], p[2]).val :
        p \in { q \in CidrCandidates : Ipv4Cidr_new(q[1], q[2]).ok } }
    \cup { Ipv4Cidr_new_host(Ipv4Addr_new(192, 168, 0, 1)) }

\* The addresses looked up: inside and outside every block of CIDRS.
ADDRS ==
    { Ipv4Addr_new(0, 0, 0, 0),
      Ipv4Addr_new(192, 168, 0, 0),
      Ipv4Addr_new(192, 168, 0, 1),
      Ipv4Addr_new(192, 168, 0, 2),
      Ipv4Addr_new(192, 169, 0, 0),
      Ipv4Addr_new(192, 176, 0, 0),
      Ipv4Addr_new(255, 255, 255, 255) }

\* ------------------------------------------------------------------- state
VARIABLES
    hash,             \* HashRoutingTable.cidrs
    list,             \* ListRoutingTable.cidrs
    trie,             \* TrieRoutingTable: [nodes, size]
    overflow_checks,  \* whether the build checks arithmetic overflow
    panicked,         \* the backends whose last call panicked
    found,            \* observation: what find_exact_cidr returns now
    present,          \* history: the CIDRs added and not removed since
    ops,              \* history: the number of add_cidr / remove_cidr calls
    last,             \* history: the last add_cidr / remove_cidr call
    call              \* the last call of a function of cidr.rs / utils.rs

vars == <<hash, list, trie, overflow_checks, panicked, found, present, ops, last,
          call>>

\* find_exact_cidr(addr) of each table, for every address of ADDRS.
Lookup(h, l, t) ==
    [addr \in ADDRS |->
        [hash |-> Hash_find_exact_cidr(h, addr),
         list |-> List_find_exact_cidr(l, addr),
         trie |-> Trie_find_exact_cidr(t, addr)]]

\* The call made and what a caller could observe before it.
Call(op, cidr) ==
    [op |-> op,
     cidr |-> cidr,
     was_present |-> cidr \in present,
     copies |-> Len(SelectSeq(list, LAMBDA cur : cur = cidr)),
     hash_size |-> Hash_size(hash),
     list_size |-> List_size(list),
     list |-> list,
     trie_size |-> Trie_size(trie),
     found |-> found,
     hash |-> hash,
     trie |-> trie]

Init ==
    /\ hash = Hash_new
    /\ list = List_new
    /\ trie = Trie_new
    /\ overflow_checks \in BOOLEAN
    /\ panicked = {}
    /\ found = Lookup(Hash_new, List_new, Trie_new)
    /\ present = {}
    /\ ops = 0
    /\ last = [op |-> "new"]
    /\ call = [fn |-> "none"]

\* add_cidr(cidr) on each of the three tables.
AddCidr(cidr) ==
    LET h == Hash_add_cidr(hash, cidr)
        t == Trie_add_cidr(trie, cidr)
    IN /\ panicked = {}
       /\ ops < MaxOps
       /\ hash' = h.cidrs
       /\ list' = List_add_cidr(list, cidr)
       /\ trie' = [nodes |-> t.nodes, size |-> t.size]
       /\ panicked' = {b \in {"hash"} : h.panic} \cup {b \in {"trie"} : t.panic}
       /\ found' = Lookup(hash', list', trie')
       /\ present' = present \cup {cidr}
       /\ ops' = ops + 1
       /\ last' = Call("add", cidr)
       /\ UNCHANGED <<overflow_checks, call>>

\* remove_cidr(cidr) on each of the three tables.
RemoveCidr(cidr) ==
    LET h == Hash_remove_cidr(hash, cidr)
        t == Trie_remove_cidr(trie, cidr, overflow_checks)
    IN /\ panicked = {}
       /\ ops < MaxOps
       /\ hash' = h.cidrs
       /\ list' = List_remove_cidr(list, cidr)
       /\ trie' = [nodes |-> t.nodes, size |-> t.size]
       /\ panicked' = {b \in {"hash"} : h.panic} \cup {b \in {"trie"} : t.panic}
       /\ found' = Lookup(hash', list', trie')
       /\ present' = present \ {cidr}
       /\ ops' = ops + 1
       /\ last' = Call("remove", cidr)
       /\ UNCHANGED <<overflow_checks, call>>

\* find_exact_cidr(addr) on each of the three tables: no table changes; a
\* failed expect / unwrap of the reconstructed CIDR is a panic.
FindExactCidr(addr) ==
    /\ panicked = {}
    /\ panicked' = {b \in {"hash"} : found[addr].hash = Panic}
                   \cup {b \in {"trie"} : found[addr].trie = Panic}
    /\ UNCHANGED <<hash, list, trie, overflow_checks, found, present, ops, last, call>>

\* size() on each of the three tables: a read.
Size ==
    /\ panicked = {}
    /\ UNCHANGED vars

Next ==
    \/ \E cidr \in CIDRS : AddCidr(cidr)
    \/ \E cidr \in CIDRS : RemoveCidr(cidr)
    \/ \E addr \in ADDRS : FindExactCidr(addr)
    \/ Size

Spec == Init /\ [][Next]_vars

\* The three tables as one value, for calls made one after another.
Tables == [hash |-> hash, list |-> list, trie |-> trie, panicked |-> panicked # {}]

\* add_cidr(cidr) on each table of st; nothing runs after a panic.
ApplyAdd(st, cidr) ==
    IF st.panicked
    THEN st
    ELSE [hash |-> Hash_add_cidr(st.hash, cidr).cidrs,
          list |-> List_add_cidr(st.list, cidr),
          trie |-> [nodes |-> Trie_add_cidr(st.trie, cidr).nodes,
                    size |-> Trie_add_cidr(st.trie, cidr).size],
          panicked |-> Hash_add_cidr(st.hash, cidr).panic
                       \/ Trie_add_cidr(st.trie, cidr).panic]

\* remove_cidr(cidr) on each table of st.
ApplyRemove(st, cidr) ==
    IF st.panicked
    THEN st
    ELSE [hash |-> Hash_remove_cidr(st.hash, cidr).cidrs,
          list |-> List_remove_cidr(st.list, cidr),
          trie |-> [nodes |-> Trie_remove_cidr(st.trie, cidr, overflow_checks).nodes,
                    size |-> Trie_remove_cidr(st.trie, cidr, overflow_checks).size],
          panicked |-> Hash_remove_cidr(st.hash, cidr).panic
                       \/ Trie_remove_cidr(st.trie, cidr, overflow_checks).panic]

Apply(st, op, cidr) ==
    IF op = "add" THEN ApplyAdd(st, cidr) ELSE ApplyRemove(st, cidr)

\* What a caller observes of the tables: size() and find_exact_cidr.
Observe(st) ==
    [panicked |-> st.panicked,
     hash_size |-> Hash_size(st.hash),
     list_size |-> List_size(st.list),
     trie_size |-> Trie_size(st.trie),
     found |-> Lookup(st.hash, st.list, st.trie)]

\* A run in which add_cidr is only called with an absent CIDR and
\* remove_cidr only with a present one.
AddAbsent(cidr) == cidr \notin present /\ AddCidr(cidr)

RemovePresent(cidr) == cidr \in present /\ RemoveCidr(cidr)

NextNoDup ==
    \/ \E cidr \in CIDRS : AddAbsent(cidr)
    \/ \E cidr \in CIDRS : RemovePresent(cidr)
    \/ \E addr \in ADDRS : FindExactCidr(addr)
    \/ Size

SpecNoDup == Init /\ [][NextNoDup]_vars

\* --------------------------------------- the functions of cidr.rs, utils.rs
\* The addresses given to the functions: the 33 masks, the 32 single bits,
\* and addresses of the tests.
SAMPLE_ADDRS ==
    { Fill(k, 1) \o Fill(32 - k, 0) : k \in 0..32 }
    \cup { Fill(k - 1, 0) \o <<1>> \o Fill(32 - k, 0) : k \in 1..32 }
    \cup { Ipv4Addr_new(192, 168, 0, 0),
           Ipv4Addr_new(192, 168, 0, 1),
           Ipv4Addr_new(192, 168, 200, 4),
           Ipv4Addr_new(169, 254, 0, 0),
           Ipv4Addr_new(100, 64, 0, 0),
           Ipv4Addr_new(192, 175, 255, 255),
           Ipv4Addr_new(192, 176, 0, 0),
           Ipv4Addr_new(192, 167, 255, 255) }

\* Every u8.
U8 == 0..U8_MAX

\* The valid CIDRs over the sample: what new accepts and what new_host makes.
SAMPLE_CIDRS ==
    { Ipv4Cidr_new(p[1], p[2]).val :
        p \in { q \in SAMPLE_ADDRS \X (0..MAX_LENGTH) : Ipv4Cidr_new(q[1], q[2]).ok } }
    \cup { Ipv4Cidr_new_host(addr) : addr \in SAMPLE_ADDRS }

\* The decimal text of n.
RECURSIVE Decimal(_)
Decimal(n) ==
    IF n < 10
    THEN <<DIGITS[n + 1]>>
    ELSE Decimal(n \div 10) \o <<DIGITS[(n % 10) + 1]>>

Dotted(a, b, c, d) ==
    Decimal(a) \o <<".">> \o Decimal(b) \o <<".">> \o Decimal(c) \o <<".">> \o Decimal(d)

\* Texts before the '/': dotted quads and texts that are none.
ADDR_TOKENS ==
    { Dotted(0, 0, 0, 0), Dotted(192, 168, 0, 0), Dotted(192, 168, 200, 4),
      Dotted(255, 255, 255, 255),
      Dotted(128, 256, 3, 4),
      <<"i", "n", "v", "a", "l", "i", "d">>,
      << >>,
      <<"1", ".", "2", ".", "3">>,
      <<"1", ".", "2", ".", "3", ".", "4", ".", "5">>,
      <<"0", "1", ".", "2", ".", "3", ".", "4">>,
      <<"1", ".", ".", "3", ".", "4">> }

\* The largest number written as a length.
MaxLenText == 300

\* Texts after the '/': numbers and texts that are none.
LEN_TOKENS ==
    { Decimal(n) : n \in 0..MaxLenText }
    \cup { <<"h", "e", "l", "l", "o">>,
           << >>,
           <<"+">>,
           <<"-">>,
           <<"+", "1", "6">>,
           <<"-", "1">>,
           <<"0", "1", "6">>,
           <<"0", "0", "0", "0">>,
           <<"1", "x">>,
           <<" ", "1", "6">>,
           <<"1", "6", ".", "0">> }

\* The texts parsed: ADDRESS/LENGTH, and texts of another shape.
TEXTS ==
    { t[1] \o <<"/">> \o t[2] : t \in ADDR_TOKENS \X LEN_TOKENS }
    \cup { <<"w", "r", "o", "n", "g">>,
           << >>,
           Dotted(192, 168, 0, 0),
           Dotted(192, 168, 0, 0) \o <<"/">> \o Decimal(16) \o <<"/">> \o Decimal(8) }

\* Each action is one call, made once in a run: the functions keep no state,
\* so a call's result does not depend on the calls before it.

\* Ipv4Cidr::new(addr, len)
New ==
    /\ call.fn = "none"
    /\ \E addr \in SAMPLE_ADDRS : \E len \in U8 :
           call' = [fn |-> "new", addr |-> addr, len |-> len,
                    ret |-> Ipv4Cidr_new(addr, len)]
    /\ UNCHANGED <<hash, list, trie, overflow_checks, panicked, found, present, ops, last>>

\* Ipv4Cidr::new_host(addr)
NewHost ==
    /\ call.fn = "none"
    /\ \E addr \in SAMPLE_ADDRS :
           call' = [fn |-> "new_host", addr |-> addr, ret |-> Ipv4Cidr_new_host(addr)]
    /\ UNCHANGED <<hash, list, trie, overflow_checks, panicked, found, present, ops, last>>

\* cidr.prefix_len(), cidr.min() and cidr.max() of one CIDR.
MinMax ==
    /\ call.fn = "none"
    /\ \E cidr \in SAMPLE_CIDRS :
           call' = [fn |-> "min_max", cidr |-> cidr, len |-> prefix_len(cidr),
                    min |-> Ipv4Cidr_min(cidr), max |-> Ipv4Cidr_max(cidr)]
    /\ UNCHANGED <<hash, list, trie, overflow_checks, panicked, found, present, ops, last>>

\* Ipv4Cidr::from_str(text)
FromStr ==
    /\ call.fn = "none"
    /\ \E text \in TEXTS :
           call' = [fn |-> "from_str", text |-> text, ret |-> from_str(text)]
    /\ UNCHANGED <<hash, list, trie, overflow_checks, panicked, found, present, ops, last>>

\* get_cidr_mask(len)
GetCidrMask ==
    /\ call.fn = "none"
    /\ \E len \in U8 :
           call' = [fn |-> "get_cidr_mask", len |-> len, ret |-> get_cidr_mask(len)]
    /\ UNCHANGED <<hash, list, trie, overflow_checks, panicked, found, present, ops, last>>

\* cut_addr(addr, len)
CutAddr ==
    /\ call.fn = "none"
    /\ \E addr \in SAMPLE_ADDRS : \E len \in U8 :
           call' = [fn |-> "cut_addr", addr |-> addr, len |-> len,
                    ret |-> cut_addr(addr, len)]
    /\ UNCHANGED <<hash, list, trie, overflow_checks, panicked, found, present, ops, last>>

\* cidr.contains(addr)
Contains ==
    /\ call.fn = "none"
    /\ \E cidr \in SAMPLE_CIDRS : \E addr \in SAMPLE_ADDRS \cup ADDRS :
           call' = [fn |-> "contains", cidr |-> cidr, addr |-> addr,
                    ret |-> Ipv4Cidr_contains(cidr, addr)]
    /\ UNCHANGED <<hash, list, trie, overflow_checks, panicked, found, present, ops, last>>

NextCidr ==
    \/ New
    \/ NewHost
    \/ MinMax
    \/ FromStr
    \/ GetCidrMask
    \/ CutAddr
    \/ Contains

SpecCidr == Init /\ [][NextCidr]_vars

\* ------------------------------------------------------ reference notions
Backends == {"hash", "list", "trie"}

DEFAULT_ROUTE == [addr |-> Ipv4Addr_new(0, 0, 0, 0), len |-> 0]
NET13 == [addr |-> Ipv4Addr_new(192, 168, 0, 0), len |-> 13]
NET16 == [addr |-> Ipv4Addr_new(192, 168, 0, 0), len |-> 16]
HOST == [addr |-> Ipv4Addr_new(192, 168, 0, 1), len |-> 32]

\* The block of cidr contains addr: they agree on the first cidr.len bits.
Covers(cidr, addr) == \A i \in 1..cidr.len : addr[i] = cidr.addr[i]

\* The longest-prefix match of addr in the set S of CIDRs.
Longest(S, addr) ==
    LET covering == {c \in S : Covers(c, addr)}
    IN IF covering = {}
       THEN None
       ELSE Some(CHOOSE c \in covering : \A d \in covering : d.len <= c.len)

\* The number of trie nodes whose leaf flag is set.
LeafCount == Cardinality({p \in 1..Len(trie.nodes) : trie.nodes[p].is_leaf})

\* new is old with every entry equal to cidr deleted, the other entries in
\* their old order.
Kept(old, cidr) == {i \in 1..Len(old) : old[i] # cidr}

IsRetained(new, old, cidr) ==
    /\ Len(new) = Cardinality(Kept(old, cidr))
    /\ \A k \in 1..Len(new) :
          \E i \in Kept(old, cidr) :
              /\ Cardinality({j \in Kept(old, cidr) : j < i}) = k - 1
              /\ new[k] = old[i]

\* addr with every bit outside its top len bits cleared.
Truncate(addr, len) ==
    Word([i \in 1..32 |-> IF i <= len THEN addr[i] ELSE 0], 32)

\* The 32-bit value whose top len bits are 1 and whose other bits are 0.
TopOnes(len) == Word([i \in 1..32 |-> IF i <= len THEN 1 ELSE 0], 32)

\* The positions of the character ch in text.
Positions(text, ch) == {i \in 1..Len(text) : text[i] = ch}

\* The parts of a text with one '/': before it and after it.
Left(text) == SubSeq(text, 1, (CHOOSE i \in Positions(text, "/") : TRUE) - 1)
Right(text) == SubSeq(text, (CHOOSE i \in Positions(text, "/") : TRUE) + 1, Len(text))

\* The decimal texts of the numbers 0..255.
DecimalOctets == {Decimal(n) : n \in 0..255}

\* The four fields of a text with three '.'.
Fields(tok) ==
    LET dots == Positions(tok, ".")
        d1 == CHOOSE i \in dots : \A j \in dots : i <= j
        d3 == CHOOSE i \in dots : \A j \in dots : j <= i
        d2 == CHOOSE i \in dots : i # d1 /\ i # d3
    IN <<SubSeq(tok, 1, d1 - 1), SubSeq(tok, d1 + 1, d2 - 1),
         SubSeq(tok, d2 + 1, d3 - 1), SubSeq(tok, d3 + 1, Len(tok))>>

\* tok is a dotted quad: four decimal numbers 0..255 separated by '.'.
ValidQuad(tok) ==
    /\ Cardinality(Positions(tok, ".")) = 3
    /\ \A i \in 1..4 : Fields(tok)[i] \in DecimalOctets

\* The number a decimal text of DecimalOctets denotes.
OctetOf(field) == CHOOSE n \in 0..255 : Decimal(n) = field

QuadValue(tok) ==
    Ipv4Addr_new(OctetOf(Fields(tok)[1]), OctetOf(Fields(tok)[2]),
                 OctetOf(Fields(tok)[3]), OctetOf(Fields(tok)[4]))

\* tok is a non-negative integer: decimal digits, after an optional '+'.
Unsigned(tok) == IF tok # << >> /\ tok[1] = "+" THEN Tail(tok) ELSE tok

IsInteger(tok) ==
    /\ Unsigned(tok) # << >>
    /\ \A i \in 1..Len(Unsigned(tok)) : IsDigit(Unsigned(tok)[i])

\* The number the digits denote.
RECURSIVE DigitsValue(_)
DigitsValue(digits) ==
    IF digits = << >>
    THEN 0
    ELSE 10 * DigitsValue(SubSeq(digits, 1, Len(digits) - 1))
         + to_digit(digits[Len(digits)])

ValueOf(tok) == DigitsValue(Unsigned(tok))

\* tok is a u8: a non-negative integer that is at most 255.
IsU8(tok) == IsInteger(tok) /\ ValueOf(tok) <= U8_MAX

\* The text has the form ADDRESS/LENGTH with a valid dotted-quad address.
HasValidAddress(text) ==
    /\ Cardinality(Positions(text, "/")) = 1
    /\ ValidQuad(Left(text))

\* The node at the end of the path of the first len bits of addr, most
\* significant bit first, NULL when a node of the path is missing.
NodeAt(nodes, addr, len) ==
    ForRange(LAMBDA q, i : IF q = NULL THEN NULL ELSE nodes[q].children[addr[i] + 1],
             ROOT, 1, len)

\* The pairs <<node, bit path from the root>> one level below the frontier.
LevelBelow(nodes, frontier) ==
    { <<nodes[x[1][1]].children[x[2] + 1], Append(x[1][2], x[2])>> :
        x \in { y \in frontier \X {0, 1} : nodes[y[1][1]].children[y[2] + 1] # NULL } }

WalkState(seen, level) == [frontier |-> level, seen |-> seen \cup level]

\* Every pair <<node, bit path>> met walking down from the root, 32 levels.
TrieWalk(nodes) ==
    ForRange(LAMBDA s, depth : WalkState(s.seen, LevelBelow(nodes, s.frontier)),
             [frontier |-> {<<ROOT, << >>>>}, seen |-> {<<ROOT, << >>>>}],
             1, MAX_LENGTH).seen

\* A bit path read as (address, length): the path, then zeros.
PathCidr(path) == [addr |-> path \o Fill(32 - Len(path), 0), len |-> Len(path)]

\* The CIDRs each backend state encodes.
LeafCidrsOf(nodes, seen) == { PathCidr(pr[2]) : pr \in { q \in seen : nodes[q[1]].is_leaf } }

TrieCidrs(nodes) == LeafCidrsOf(nodes, TrieWalk(nodes))

HashCidrs(cidrs) ==
    UNION { { [addr |-> bits, len |-> len] : bits \in cidrs[len] } : len \in DOMAIN cidrs }

ListCidrs(cidrs) == { cidrs[i] : i \in 1..Len(cidrs) }

\* Presence of the CIDR d in each backend state.
HashHas(cidrs, d) == d.addr \in cidrs[d.len]

ListHas(cidrs, d) == \E i \in 1..Len(cidrs) : cidrs[i] = d

LeafAt(nodes, p) == p # NULL /\ nodes[p].is_leaf

TrieHas(nodes, d) == LeafAt(nodes, NodeAt(nodes, d.addr, d.len))

\* Every node is met on exactly one bit path from the root, of at most 32
\* bits, and no node lies below depth 32.
ShapeOf(nodes, seen) ==
    /\ \A p \in 1..Len(nodes) : Cardinality({ pr \in seen : pr[1] = p }) = 1
    /\ \A pr \in seen : Len(pr[2]) = MAX_LENGTH => nodes[pr[1]].children = <<NULL, NULL>>

TreeShape(nodes) == ShapeOf(nodes, TrieWalk(nodes))

\* The depth of node p.
DepthIn(seen, p) == Len((CHOOSE pr \in seen : pr[1] = p)[2])

\* tr is the run of the hash lookup of addr that the claim describes: the
\* iteration for len is run if no longer length hit; it starts with the mask
\* of the top len bits, tests addr cut to len bits in bucket len, and returns
\* the CIDR of that value and len on a hit.
MaskedLookup(cidrs, addr, tr) ==
    /\ Len(tr) = 34
    /\ \A k \in 0..32 :
           IF tr[k + 1].returned
           THEN tr[k + 2] = tr[k + 1]
           ELSE /\ tr[k + 1].bit_mask = TopOnes(32 - k)
                /\ tr[k + 2].addr_bits = Truncate(addr, 32 - k)
                /\ Ok(tr[k + 2].addr_bits) = cut_addr(addr, 32 - k)
                /\ k = 32 => tr[k + 2].addr_bits = U32_ZERO
                /\ ~tr[k + 2].overflowed
                /\ tr[k + 2].returned <=> Truncate(addr, 32 - k) \in cidrs[32 - k]
                /\ tr[k + 2].returned =>
                       tr[k + 2].ret = Some([addr |-> Truncate(addr, 32 - k),
                                             len |-> 32 - k])
                /\ ~tr[k + 2].returned => tr[k + 2].ret = None
    /\ Cardinality({k \in 0..32 : ~tr[k + 1].returned}) <= 33
    /\ Hash_find_exact_cidr(cidrs, addr) = tr[34].ret

\* c is canonical: its length is within 0..=32 and every bit of its address
\* outside the top length bits is zero.
Canonical(c) ==
    /\ c.len \in 0..32
    /\ \A i \in (c.len + 1)..32 : c.addr[i] = 0

\* The CIDRs the constructors and the parser give for the sampled inputs.
BuiltCidrs ==
    { Ipv4Cidr_new(p[1], p[2]).val :
        p \in { q \in SAMPLE_ADDRS \X U8 : Ipv4Cidr_new(q[1], q[2]).ok } }
    \cup { Ipv4Cidr_new_host(addr) : addr \in SAMPLE_ADDRS }
    \cup { from_str(t).val : t \in { u \in TEXTS : from_str(u).ok } }

\* ------------------------------------------------------------------ claims

\* C1: after any sequence of add_cidr / remove_cidr calls that returned,
\* find_exact_cidr(addr) of each backend is the present CIDR of greatest
\* prefix length whose block contains addr, and none exactly when no present
\* CIDR contains addr.
C1_LongestPrefixMatch ==
    panicked = {} =>
        \A addr \in ADDRS : \A b \in Backends :
            found[addr][b] = Longest(present, addr)

\* A removal has happened, two nested blocks are present and the lookup of
\* an address in both returns the longer one.
C1_Witness ==
    /\ panicked = {}
    /\ last.op = "remove"
    /\ {NET13, NET16} \subseteq present
    /\ \A b \in Backends : found[Ipv4Addr_new(192, 168, 0, 2)][b] = Some(NET16)

\* C2: after every step of the same sequence of calls the three backends
\* return the same result of find_exact_cidr for every address, also after
\* repeated add_cidr of one CIDR and remove_cidr of an absent one.
C2_BackendsAgree ==
    panicked = {} =>
        \A addr \in ADDRS :
            /\ found[addr].hash = found[addr].list
            /\ found[addr].list = found[addr].trie

\* One CIDR was added twice, then an absent CIDR whose bit path it shares
\* was removed; the twice-added CIDR is still found.
C2_Witness ==
    /\ panicked = {}
    /\ last.op = "remove"
    /\ ~last.was_present
    /\ last.cidr = NET13
    /\ list = <<HOST, HOST>>
    /\ \A b \in Backends : found[Ipv4Addr_new(192, 168, 0, 1)][b] = Some(HOST)

\* C3: remove_cidr of a CIDR that is not present is a no-op and not an
\* error: size() and every find_exact_cidr result are as before, in every
\* backend.
C3_RemoveAbsentIsNoOp ==
    (last.op = "remove" /\ ~last.was_present) =>
        /\ panicked = {}
        /\ Hash_size(hash) = last.hash_size
        /\ List_size(list) = last.list_size
        /\ Trie_size(trie) = last.trie_size
        /\ found = last.found

\* C4: no call panics; the trie's size counter is never decremented at 0
\* (a counter below 0 stands for a usize that wrapped).
C4_NoRuntimeFailure ==
    /\ panicked = {}
    /\ Trie_size(trie) >= 0

\* C5: size() of the trie is the number of distinct CIDRs added and not
\* removed since, which is the number of nodes whose leaf flag is set.
C5_TrieSizeCountsLeaves ==
    panicked = {} =>
        /\ Trie_size(trie) = Cardinality(present)
        /\ Trie_size(trie) = LeafCount

\* C6: size() of the hash table is the number of distinct CIDRs added and
\* not removed since; adding a present CIDR leaves it, removing a present
\* CIDR takes exactly 1 off.
C6_HashSetSemantics ==
    /\ Hash_size(hash) = Cardinality(present)
    /\ (last.op = "add" /\ last.was_present) => Hash_size(hash) = last.hash_size
    /\ (last.op = "remove" /\ last.was_present) =>
           Hash_size(hash) = last.hash_size - 1

\* A present CIDR was added again while another CIDR is present too.
C6_Witness ==
    /\ last.op = "add"
    /\ last.was_present
    /\ Hash_size(hash) = 2

\* C7: every add_cidr makes the list one longer; one remove_cidr(c) deletes
\* every entry equal to c, so size() drops by the number of copies of c and
\* the other entries keep their multiplicity and order.
C7_ListMultisetSemantics ==
    /\ last.op = "add" =>
           /\ List_size(list) = last.list_size + 1
           /\ list[Len(list)] = last.cidr
           /\ SubSeq(list, 1, Len(list) - 1) = last.list
    /\ last.op = "remove" =>
           /\ List_size(list) = last.list_size - last.copies
           /\ \A i \in 1..Len(list) : list[i] # last.cidr
           /\ IsRetained(list, last.list, last.cidr)

\* Two copies of a CIDR were removed at once.
C7_Witness ==
    /\ last.op = "remove"
    /\ last.copies = 2
    /\ List_size(list) = last.list_size - 2

\* C8: after remove_cidr(c) returned, and until add_cidr(c) is called again,
\* no backend returns c for any address, however often c was added before;
\* an address whose lookup returned another CIDR before the removal still
\* returns that CIDR.
C8_OneRemovalRemoves ==
    panicked = {} =>
        \A addr \in ADDRS : \A b \in Backends :
            /\ \A c \in CIDRS \ present : found[addr][b] # Some(c)
            /\ (/\ last.op = "remove"
                /\ last.found[addr][b] # None
                /\ last.found[addr][b] # Some(last.cidr))
               => found[addr][b] = last.found[addr][b]

\* A CIDR added twice was removed once; the address it covered now resolves
\* to nothing.
C8_Witness ==
    /\ panicked = {}
    /\ last.op = "remove"
    /\ last.cidr = HOST
    /\ last.copies = 2
    /\ \A b \in Backends : found[Ipv4Addr_new(192, 168, 0, 1)][b] = None

\* C9 (under SpecNoDup): when add_cidr is only called with an absent CIDR
\* and remove_cidr only with a present one, size() is the same in the three
\* backends after every step and is the number of present CIDRs.
C9_SizesAgree ==
    /\ panicked = {}
    /\ Hash_size(hash) = Cardinality(present)
    /\ List_size(list) = Cardinality(present)
    /\ Trie_size(trie) = Cardinality(present)

\* Two CIDRs were added and one of them removed.
C9_Witness ==
    /\ ops = 3
    /\ last.op = "remove"
    /\ Cardinality(present) = 1
    /\ Trie_size(trie) = 1

\* C10: while 0.0.0.0/0 is present every lookup returns some CIDR, and
\* returns 0.0.0.0/0 exactly for the addresses no other present CIDR covers;
\* after add_cidr(0.0.0.0/0) as the only call every lookup returns 0.0.0.0/0
\* and size() is 1; in the trie the entry is the root's leaf flag.
C10_DefaultRoute ==
    panicked = {} =>
        /\ DEFAULT_ROUTE \in present =>
               \A addr \in ADDRS : \A b \in Backends :
                   /\ found[addr][b] # None
                   /\ found[addr][b] = Some(DEFAULT_ROUTE) <=>
                          ~ \E c \in present \ {DEFAULT_ROUTE} : Covers(c, addr)
        /\ (ops = 1 /\ last.op = "add" /\ last.cidr = DEFAULT_ROUTE) =>
               /\ \A addr \in ADDRS : \A b \in Backends :
                      found[addr][b] = Some(DEFAULT_ROUTE)
               /\ Hash_size(hash) = 1
               /\ List_size(list) = 1
               /\ Trie_size(trie) = 1
        /\ trie.nodes[ROOT].is_leaf <=> DEFAULT_ROUTE \in present

\* The default route and a longer block are present: one address resolves
\* to the default route, another to the longer block.
C10_Witness ==
    /\ panicked = {}
    /\ {DEFAULT_ROUTE, NET16} \subseteq present
    /\ \A b \in Backends :
          /\ found[Ipv4Addr_new(255, 255, 255, 255)][b] = Some(DEFAULT_ROUTE)
          /\ found[Ipv4Addr_new(192, 168, 0, 2)][b] = Some(NET16)

\* C11 (under SpecCidr): Ipv4Cidr::new(addr, len) returns the CIDR with
\* exactly that address and length if and only if len is in 0..=32 and
\* clearing the bits of addr outside its top len bits leaves addr unchanged;
\* it returns NetworkLengthError in every other case.
C11_NewValidates ==
    call.fn = "new" =>
        LET valid == /\ call.len \in 0..32
                     /\ Truncate(call.addr, call.len) = call.addr
        IN /\ call.ret.ok <=> valid
           /\ call.ret.ok => call.ret.val = [addr |-> call.addr, len |-> call.len]
           /\ ~call.ret.ok => call.ret = Err("NetworkLengthError")

\* new was called with a length within 0..=32 and an address with a bit set
\* below that length, and rejected it.
C11_Witness ==
    /\ call.fn = "new"
    /\ call.addr = Ipv4Addr_new(192, 168, 0, 1)
    /\ call.len = 16
    /\ call.ret = Err("NetworkLengthError")

\* C13 (under SpecCidr): for every valid CIDR of prefix length L,
\* min() <= max(), max() agrees with min() on the top L bits and has the low
\* 32 - L bits set where min() has them clear (so max = min + 2^(32-L) - 1
\* with no carry out of 32 bits); max is 255.255.255.255 for L = 0 and min
\* for L = 32.
C13_MinMax ==
    call.fn = "min_max" =>
        /\ call.max # Panic
        /\ Leq(call.min, call.max)
        /\ \A i \in 1..call.len : call.max[i] = call.min[i]
        /\ \A i \in (call.len + 1)..32 : call.max[i] = 1 /\ call.min[i] = 0
        /\ call.len = 0 => call.max = Ipv4Addr_new(255, 255, 255, 255)
        /\ call.len = 32 => call.max = call.min

\* min and max of 192.168.0.0/13 were taken: 192.168.0.0 and
\* 192.175.255.255.
C13_Witness ==
    /\ call.fn = "min_max"
    /\ call.cidr = NET13
    /\ call.min = Ipv4Addr_new(192, 168, 0, 0)
    /\ call.max = Ipv4Addr_new(192, 175, 255, 255)

\* C16 (under SpecCidr): for len in 0..=32 get_cidr_mask(len) is the value
\* with the top len bits 1 and the others 0, and cut_addr(addr, len) is addr
\* AND that mask; for len > 32 both return NetworkLengthError; no shift
\* overflows.
C16_MaskUtilities ==
    /\ call.fn = "get_cidr_mask" =>
           /\ call.ret # Overflow
           /\ call.len <= 32 => call.ret = Ok(TopOnes(call.len))
           /\ call.len > 32 => call.ret = Err("NetworkLengthError")
    /\ call.fn = "cut_addr" =>
           /\ call.ret # Overflow
           /\ call.len <= 32 =>
                  /\ call.ret = Ok(Truncate(call.addr, call.len))
                  /\ call.ret = Ok(BitAnd(call.addr, get_cidr_mask(call.len).val))
           /\ call.len = 0 => call.ret = Ok(U32_ZERO)
           /\ call.len = 32 => call.ret = Ok(call.addr)
           /\ call.len > 32 => call.ret = Err("NetworkLengthError")

\* cut_addr was called with len = 0, where right_len is the width of a u32,
\* on the address with every bit set.
C16_Witness ==
    /\ call.fn = "cut_addr"
    /\ call.len = 0
    /\ call.addr = U32_MAX
    /\ call.ret = Ok(U32_ZERO)

\* C14, as stated: parsing ADDRESS/LENGTH with a valid dotted-quad address
\* and a length token that is a non-negative integer gives the result of
\* new(address, length), the network-length error for every integer above
\* 32 (256 and 300 too); the integer-parse error is returned exactly when the
\* token is no non-negative integer.
C14_IntegerLengthDelegates ==
    (call.fn = "from_str" /\ HasValidAddress(call.text)) =>
        LET addr == QuadValue(Left(call.text))
            tok == Right(call.text)
        IN /\ (IsInteger(tok) /\ ValueOf(tok) <= 32) =>
                  call.ret = Ipv4Cidr_new(addr, ValueOf(tok))
           /\ (IsInteger(tok) /\ ValueOf(tok) > 32) =>
                  call.ret = Err("NetworkLengthError")
           /\ (~call.ret.ok /\ call.ret.err = "ParseIntError") <=> ~IsInteger(tok)

\* C14, amended (under SpecCidr): parsing ADDRESS/LENGTH with a valid
\* dotted-quad address and a length token that is a u8 (decimal digits after
\* an optional '+', denoting at most 255) gives the result of
\* new(address, length), the network-length error for every such token above
\* 32; the integer-parse error is returned exactly when the token is no u8,
\* which includes the integers above 255.
C14_U8LengthDelegates ==
    (call.fn = "from_str" /\ HasValidAddress(call.text)) =>
        LET addr == QuadValue(Left(call.text))
            tok == Right(call.text)
        IN /\ IsU8(tok) => call.ret = Ipv4Cidr_new(addr, ValueOf(tok))
           /\ (IsU8(tok) /\ ValueOf(tok) > 32) =>
                  call.ret = Err("NetworkLengthError")
           /\ (~call.ret.ok /\ call.ret.err = "ParseIntError") <=> ~IsU8(tok)
           /\ (IsInteger(tok) /\ ValueOf(tok) > U8_MAX) =>
                  call.ret = ErrWith("ParseIntError", "PosOverflow")

\* "192.168.0.0/256" was parsed: the integer-parse error.
C14_Witness ==
    /\ call.fn = "from_str"
    /\ call.text = Dotted(192, 168, 0, 0) \o <<"/">> \o Decimal(256)
    /\ call.ret = ErrWith("ParseIntError", "PosOverflow")

\* C15 (under SpecCidr): the parse errors are checked in a fixed order: the
\* malformed-shape error iff the text has not exactly one '/'; otherwise the
\* address-parse error iff the left part is no dotted quad, whatever the
\* right part; otherwise the integer-parse error iff the right part is no
\* u8; otherwise the network-length error iff new rejects the pair;
\* otherwise the CIDR (address, length).
C15_ParseErrorOrder ==
    call.fn = "from_str" =>
        IF Cardinality(Positions(call.text, "/")) # 1
        THEN call.ret = Err("CidrParseError")
        ELSE IF ~ValidQuad(Left(call.text))
             THEN ~call.ret.ok /\ call.ret.err = "AddrParseError"
             ELSE IF ~IsU8(Right(call.text))
                  THEN ~call.ret.ok /\ call.ret.err = "ParseIntError"
                  ELSE LET addr == QuadValue(Left(call.text))
                           len == ValueOf(Right(call.text))
                       IN IF len > 32 \/ Truncate(addr, len) # addr
                          THEN call.ret = Err("NetworkLengthError")
                          ELSE call.ret = Ok([addr |-> addr, len |-> len])

\* "invalid/hello" was parsed, both parts invalid: the address-parse error.
C15_Witness ==
    /\ call.fn = "from_str"
    /\ call.text = <<"i", "n", "v", "a", "l", "i", "d", "/", "h", "e", "l", "l", "o">>
    /\ ~call.ret.ok
    /\ call.ret.err = "AddrParseError"

\* C12: every Ipv4Cidr that exists - built by new, new_host or parsing,
\* stored in the hash buckets or in the list, or returned by find_exact_cidr
\* of a backend - is canonical; the reconstruction of the result in the hash
\* and trie find_exact_cidr (expect / unwrap) never fails.
C12_CanonicalCidrs ==
    /\ \A c \in BuiltCidrs : Canonical(c)
    /\ \A c \in CIDRS : Canonical(c)
    /\ \A len \in DOMAIN hash : \A bits \in hash[len] :
           Canonical([addr |-> bits, len |-> len])
    /\ \A i \in 1..Len(list) : Canonical(list[i])
    /\ \A addr \in ADDRS : \A b \in Backends :
           /\ found[addr][b] # Panic
           /\ found[addr][b] # None => Canonical(found[addr][b].val)

\* 192.168.0.0/13 is stored and the lookup of 192.169.0.0, which has a bit
\* set below the 13th, returns the CIDR rebuilt from the truncated address.
C12_Witness ==
    /\ NET13.addr \in hash[13]
    /\ \E i \in 1..Len(list) : list[i] = NET13
    /\ \A b \in Backends : found[Ipv4Addr_new(192, 169, 0, 0)][b] = Some(NET13)

\* C17: TrieRoutingTable::add_cidr adds exactly 1 to the size counter on
\* every call and sets the leaf flag of the node at the CIDR's bit path;
\* remove_cidr takes exactly 1 off the counter and clears that node's leaf
\* flag exactly when every node of the path exists, whether or not the flag
\* was set, and changes neither the counter nor a flag when a node of the
\* path is missing.
C17_TrieBookkeeping ==
    /\ last.op = "add" =>
           /\ Trie_size(trie) = last.trie_size + 1
           /\ TrieHas(trie.nodes, last.cidr)
    /\ last.op = "remove" =>
           IF NodeAt(last.trie.nodes, last.cidr.addr, last.cidr.len) # NULL
           THEN /\ Trie_size(trie) = last.trie_size - 1
                /\ ~TrieHas(trie.nodes, last.cidr)
                /\ Len(trie.nodes) = Len(last.trie.nodes)
                /\ \A p \in 1..Len(trie.nodes) :
                       p # NodeAt(last.trie.nodes, last.cidr.addr, last.cidr.len)
                           => trie.nodes[p] = last.trie.nodes[p]
           ELSE trie = last.trie

\* C18: add_cidr(c) and remove_cidr(c) change the presence of no CIDR other
\* than c, in every backend: a CIDR d # c (the same address with another
\* length, a shorter prefix of c, an extension of c) is present after the
\* call iff it was present before.
C18_OnlyEqualCidrChanges ==
    last.op \in {"add", "remove"} =>
        \A d \in CIDRS \ {last.cidr} :
            /\ HashHas(hash, d) <=> HashHas(last.hash, d)
            /\ ListHas(list, d) <=> ListHas(last.list, d)
            /\ TrieHas(trie.nodes, d) <=> TrieHas(last.trie.nodes, d)

\* 192.168.0.0/16 was removed while the host 192.168.0.1/32, whose trie path
\* passes through its node, is present in every backend.
C18_Witness ==
    /\ panicked = {}
    /\ last.op = "remove"
    /\ last.cidr = NET16
    /\ last.was_present
    /\ HashHas(hash, HOST)
    /\ ListHas(list, HOST)
    /\ TrieHas(trie.nodes, HOST)

\* C19: after the same calls that returned, the set of (bit path, depth) of
\* the trie nodes whose leaf flag is set, read as (address, length), is the
\* set of (address, length) held in the hash buckets, and the set of the
\* distinct list entries.
C19_SameCidrSet ==
    panicked = {} =>
        /\ TrieCidrs(trie.nodes) = HashCidrs(hash)
        /\ HashCidrs(hash) = ListCidrs(list)

\* After the removal of a present CIDR the three states encode the host
\* CIDR alone.
C19_Witness ==
    /\ panicked = {}
    /\ last.op = "remove"
    /\ last.was_present
    /\ TrieCidrs(trie.nodes) = {HOST}
    /\ HashCidrs(hash) = {HOST}
    /\ list = <<HOST>>

\* C20: no node is ever deleted or detached and every child pointer once set
\* is kept; add_cidr(c) creates only nodes missing on c's bit path, at most
\* c.prefix_len() of them, from the most significant bit down; every other
\* call creates no node; every node is reached from the root by exactly one
\* bit path, of at most 32 bits.
C20_StepKeepsNodes ==
    /\ Len(trie'.nodes) >= Len(trie.nodes)
    /\ \A p \in 1..Len(trie.nodes) : \A b \in 1..2 :
           trie.nodes[p].children[b] # NULL
               => trie'.nodes[p].children[b] = trie.nodes[p].children[b]
    /\ TreeShape(trie'.nodes)
    /\ IF ops' = ops + 1 /\ last'.op = "add"
       THEN /\ Len(trie'.nodes) - Len(trie.nodes) <= prefix_len(last'.cidr)
            /\ \A p \in (Len(trie.nodes) + 1)..Len(trie'.nodes) :
                   LET depth == DepthIn(TrieWalk(trie'.nodes), p)
                   IN /\ depth <= prefix_len(last'.cidr)
                      /\ NodeAt(trie'.nodes, last'.cidr.addr, depth) = p
                      /\ NodeAt(trie.nodes, last'.cidr.addr, depth) = NULL
                      /\ \A q \in (Len(trie.nodes) + 1)..(p - 1) :
                             DepthIn(TrieWalk(trie'.nodes), q) < depth
       ELSE /\ Len(trie'.nodes) = Len(trie.nodes)
            /\ \A p \in 1..Len(trie.nodes) :
                   trie'.nodes[p].children = trie.nodes[p].children

C20_NodesNeverPruned == [][C20_StepKeepsNodes]_vars

\* The trie holds the 32 nodes below the root of a host CIDR's path after
\* that CIDR was removed, and 16 of them are on the path of the /16 block
\* added since.
C20_Witness ==
    /\ panicked = {}
    /\ ops = 3
    /\ last.op = "add"
    /\ last.cidr = NET16
    /\ present = {NET16}
    /\ Len(trie.nodes) = 33
    /\ Len(last.trie.nodes) = 33

\* C22 (under SpecCidr): for every valid CIDR c and address a, c.contains(a)
\* holds if and only if a with the bits outside its top c.prefix_len() bits
\* cleared is c.min(), that is, iff a agrees with c on the top
\* c.prefix_len() bits.
C22_ContainsIsPrefixMatch ==
    call.fn = "contains" =>
        /\ call.ret <=> Truncate(call.addr, prefix_len(call.cidr)) = Ipv4Cidr_min(call.cidr)
        /\ call.ret <=> Covers(call.cidr, call.addr)

\* contains was asked of 192.168.0.0/13 the last address of its block,
\* 192.175.255.255.
C22_Witness ==
    /\ call.fn = "contains"
    /\ call.cidr = NET13
    /\ call.addr = Ipv4Addr_new(192, 175, 255, 255)
    /\ call.ret

\* C21: in HashRoutingTable::find_exact_cidr the value tested in bucket L, at
\* the iteration for length L from 32 down to 0, is the queried address with
\* the bits outside its top L bits cleared (cut_addr(addr, L), 0 for L = 0);
\* the mask is shifted by one bit per iteration and no shift overflows; the
\* first hit in descending L is returned; at most 33 buckets are tested.
C21_HashMasking ==
    \A addr \in ADDRS : MaskedLookup(hash, addr, HashFindTrace(hash, addr))

\* The lookup of 192.168.0.2 missed the host CIDR stored in bucket 32 and
\* the buckets down to 17, and hit 192.168.0.0 in bucket 16.
C21_Witness ==
    /\ HOST.addr \in hash[32]
    /\ NET16.addr \in hash[16]
    /\ ~HashFindTrace(hash, Ipv4Addr_new(192, 168, 0, 2))[17].returned
    /\ HashFindTrace(hash, Ipv4Addr_new(192, 168, 0, 2))[18].returned
    /\ HashFindTrace(hash, Ipv4Addr_new(192, 168, 0, 2))[18].addr_bits
           = Ipv4Addr_new(192, 168, 0, 0)
    /\ found[Ipv4Addr_new(192, 168, 0, 2)].hash = Some(NET16)

\* C23: from every reachable state, for two different CIDRs a and b, a call
\* of add_cidr or remove_cidr on a and one on b give the same size() and the
\* same find_exact_cidr results in either order, in every backend.
C23_DifferentCidrsCommute ==
    panicked = {} =>
        \A a \in CIDRS : \A b \in CIDRS \ {a} :
            \A opA \in {"add", "remove"} : \A opB \in {"add", "remove"} :
                Observe(Apply(Apply(Tables, opA, a), opB, b))
                    = Observe(Apply(Apply(Tables, opB, b), opA, a))

\* C24: from every reachable state in which c is not present, add_cidr(c)
\* followed by remove_cidr(c) leaves size() and every find_exact_cidr result
\* of every backend as they were, and neither call panics.
C24_AddRemoveRoundTrip ==
    panicked = {} =>
        \A c \in CIDRS \ present :
            Observe(ApplyRemove(ApplyAdd(Tables, c), c))
                = [panicked |-> FALSE,
                   hash_size |-> Hash_size(hash),
                   list_size |-> List_size(list),
                   trie_size |-> Trie_size(trie),
                   found |-> found]

\* The host CIDR was added to the tables holding 192.168.0.0/16 and removed
\* by the next call: sizes and lookups are those before the two calls.
C24_Witness ==
    /\ panicked = {}
    /\ ops = 3
    /\ last.op = "remove"
    /\ last.cidr = HOST
    /\ last.list = <<NET16, HOST>>
    /\ list = <<NET16>>
    /\ Hash_size(hash) = 1
    /\ Trie_size(trie) = 1
    /\ \A b \in Backends : found[Ipv4Addr_new(192, 168, 0, 1)][b] = Some(NET16)

=============================================================================
